---- MODULE Spec2Model ----
(***************************************************************************)
(* Model of claim_batch/services.py (openIMIS claim batch module):          *)
(*   - process_batch / do_process_batch / trigger_calculation_based_on_-    *)
(*     context: the batch run orchestration inside transaction.atomic,      *)
(*   - get_start_date: the period resolver,                                 *)
(*   - update_claim_valuated: the claim finalisation update,                *)
(*   - ProcessBatchService.submit / old_submit and the capitation trigger,  *)
(*   - get_contribution_queryset / get_allocated_premium: the allocation,   *)
(*   - ReportDataService.fetch: the sums of the report rows.                *)
(*                                                                         *)
(* Python None / SQL NULL is the integer None.  Dates and datetimes are    *)
(* integers yyyymmdd (datetimes of the model all lie at midnight, as the    *)
(* end_date built by process_batch does).                                   *)
(***************************************************************************)
EXTENDS Integers, Sequences, FiniteSets, TLC

VARIABLES
    resolver,     \* one call of get_start_date: arguments, position, result
    fin,          \* one direct call of update_claim_valuated: arguments, claims before
    alloc,        \* one direct use of get_allocated_premium: premiums, windows, results
    report,       \* one call of ReportDataService.fetch: rows, grouping, result
    batchRuns,    \* committed rows of BatchRun
    claims,       \* committed rows of Claim, by id
    items,        \* committed rows of ClaimItem, by id
    services,     \* committed rows of ClaimService, by id
    nextRunId,    \* the BatchRun id sequence (never rolled back)
    pc,           \* per caller: position inside process_batch
    req,          \* per caller: arguments of the call in progress (or the last one)
    tx,           \* per caller: uncommitted writes of its transaction
    pos,          \* per caller: loop position of do_process_batch
    ret,          \* per caller: what the last call returned
    calls,        \* per caller: calculations invoked by the call, in order
    capitation,   \* capitation trigger: invocations and the external report data
    ncalls        \* number of calls started so far

vars == <<resolver, fin, alloc, report, batchRuns, claims, items, services, nextRunId,
          pc, req, tx, pos, ret, calls, capitation, ncalls>>

dbVars == <<batchRuns, claims, items, services, nextRunId>>
procVars == <<pc, req, tx, pos, ret, calls, capitation, ncalls>>

----------------------------------------------------------------------------
(* Encodings *)

\* Python None and SQL NULL
None == -1000

\* django Coalesce(x, d)
Coalesce(x, d) == IF x = None THEN d ELSE x

\* SQL addition: NULL + x is NULL
SqlAdd(a, b) == IF a = None \/ b = None THEN None ELSE a + b

DateOf(y, m, d) == y * 10000 + m * 100 + d
YearOf(dt) == dt \div 10000
MonthOf(dt) == (dt \div 100) % 100
DayOf(dt) == dt % 100

IsLeap(y) == (y % 4 = 0 /\ y % 100 # 0) \/ y % 400 = 0

\* calendar.monthrange(year, month)[1]
DaysInMonth(y, m) ==
    IF m = 2 THEN (IF IsLeap(y) THEN 29 ELSE 28)
    ELSE IF m \in {4, 6, 9, 11} THEN 30 ELSE 31

\* datetime.date(year, month, day): raises ValueError outside the calendar
date(y, m, d) ==
    IF m \in 1..12 /\ d \in 1..DaysInMonth(y, m)
    THEN [raised |-> FALSE, value |-> DateOf(y, m, d)]
    ELSE [raised |-> TRUE, value |-> None]

Returned(v) == [raised |-> FALSE, value |-> v]

RECURSIVE DaysBeforeMonth(_, _)
\* days of the year before the first of the month
DaysBeforeMonth(y, m) ==
    IF m <= 1 THEN 0 ELSE DaysBeforeMonth(y, m - 1) + DaysInMonth(y, m - 1)

\* date.toordinal(): the day number in the proleptic Gregorian calendar
toordinal(dt) ==
    LET y == YearOf(dt) - 1
    IN  y * 365 + y \div 4 - y \div 100 + y \div 400
          + DaysBeforeMonth(YearOf(dt), MonthOf(dt)) + DayOf(dt)

\* (a - b).days
DaysBetween(a, b) == toordinal(a) - toordinal(b)

\* d + datetime.timedelta(days=1)
NextDay(dt) ==
    IF DayOf(dt) < DaysInMonth(YearOf(dt), MonthOf(dt)) THEN dt + 1
    ELSE IF MonthOf(dt) < 12 THEN DateOf(YearOf(dt), MonthOf(dt) + 1, 1)
    ELSE DateOf(YearOf(dt) + 1, 1, 1)

Max(a, b) == IF a >= b THEN a ELSE b
Min(a, b) == IF a <= b THEN a ELSE b
Abs(a) == IF a < 0 THEN -a ELSE a

RECURSIVE Gcd(_, _)
Gcd(a, b) == IF b = 0 THEN a ELSE Gcd(b, a % b)

\* Amounts are exact numbers num / den, kept in lowest terms with den > 0
Frac(num, den) ==
    LET g == Gcd(Abs(num), Abs(den))
        sign == IF den < 0 THEN -1 ELSE 1
    IN  [num |-> sign * (num \div g), den |-> sign * (den \div g)]

Zero == [num |-> 0, den |-> 1]

FracAdd(a, b) == Frac(a.num * b.den + b.num * a.den, a.den * b.den)

----------------------------------------------------------------------------
(* get_start_date *)

\* a resolver that raises for a periodicity that does not fire at end_date
get_start_date_strict(end_date, periodicity) ==
    LET month == MonthOf(end_date)
        fires == \/ periodicity = 1
                 \/ periodicity \in {2, 3, 4, 6} /\ month % periodicity = 0
                 \/ periodicity = 12 /\ month = 12
    IN  IF ~fires THEN [raised |-> TRUE, value |-> None]
        ELSE IF periodicity = 12 THEN date(YearOf(end_date), 1, 1)
        ELSE IF periodicity = 4 THEN date(YearOf(end_date), month - 4, 1)
        ELSE date(YearOf(end_date), month - periodicity + 1, 1)

get_start_date(end_date, periodicity) ==
    LET year == YearOf(end_date)
        month == MonthOf(end_date)
    IN  IF periodicity = 12
        THEN (IF month = 12 THEN date(year, 1, 1) ELSE Returned(None))
        ELSE IF periodicity = 6
        THEN (IF month % 6 = 0 THEN date(year, month - 5, 1) ELSE Returned(None))
        ELSE IF periodicity = 4
        THEN (IF month % 4 = 0 THEN date(year, month - 4, 1) ELSE Returned(None))
        ELSE IF periodicity = 3
        THEN (IF month % 3 = 0 THEN date(year, month - 2, 1) ELSE Returned(None))
        ELSE IF periodicity = 2
        THEN (IF month % 2 = 0 THEN date(year, month - 1, 1) ELSE Returned(None))
        ELSE IF periodicity = 1
        THEN date(year, month, 1)
        ELSE Returned(None)

----------------------------------------------------------------------------
(* Bounds of the model *)

\* callers that may run process_batch at the same time
NCallers == 2
\* calls started in one behaviour
MaxCalls == 3
\* rows of ClaimItem / ClaimService drawn for a direct update_claim_valuated call
MaxItems == 2
MaxServices == 1
\* largest periodicity handed to get_start_date on its own
MaxPeriodicity == 13

Callers == 1..NCallers

----------------------------------------------------------------------------
(* The data the runs work on.  Product and PaymentPlan are read-only input. *)

Product ==
    [id \in {1, 2} |->
        IF id = 1
        THEN [location_id |-> None, date_from |-> 20210101, date_to |-> None,
              validity_to |-> None]
        ELSE [location_id |-> None, date_from |-> 20210601, date_to |-> 20211231,
              validity_to |-> None]]

Plan(product, periodicity, calculation, deleted) ==
    [benefit_plan |-> product, periodicity |-> periodicity,
     calculation |-> calculation, date_valid_from |-> 20190101,
     date_valid_to |-> 20500101, is_deleted |-> deleted]

PaymentPlan ==
    <<Plan(1, 1, "valuation", FALSE),
      Plan(1, 4, "payment", FALSE),
      Plan(1, 6, "payment", FALSE),
      Plan(2, 2, "valuation", FALSE),
      Plan(2, 1, "unregistered", FALSE),
      Plan(1, 1, "valuation", TRUE),
      Plan(2, 1, "payment", FALSE)>>

\* identifiers the calculation registry resolves
RegisteredCalculations == {"valuation", "payment"}

\* arguments callers pass
LocationArgs == {None, -1, 1}
PeriodArgs == {4, 6}
YearArgs == {2021}

\* (validity_from, process_stamp) of claim 1
Claim1Stamps == {<<20210405, 20210420>>, <<20210603, 20210610>>, <<20210520, 20210610>>}

ClaimRow(validity_from, process_stamp) ==
    [status |-> "PROCESSED", batch_run |-> None, remunerated |-> None,
     validity_from |-> validity_from, validity_to |-> None,
     process_stamp |-> process_stamp]

DetailRow(claim, product, price, price_valuated, legacy_id, validity_to) ==
    [claim |-> claim, product |-> product, price |-> price,
     price_valuated |-> price_valuated, legacy_id |-> legacy_id,
     validity_to |-> validity_to, status |-> "PASSED"]

\* a current Premium with the product and the dates of its policy
PremiumRow(amount, product, effective_date, expiry_date) ==
    [amount |-> amount, product |-> product, validity_to |-> None,
     effective_date |-> effective_date, expiry_date |-> expiry_date]

\* Premium rows: a policy of product 1 over the year 2021, one of product 2 over
\* May and June 2021 and one of product 1 that ended in 2020
Premium ==
    <<PremiumRow(100, 1, 20210101, 20211231),
      PremiumRow(60, 2, 20210501, 20210630),
      PremiumRow(80, 1, 20200101, 20201231)>>

\* Location rows: 1 is a district of region 10
Location ==
    [id \in {1, 10} |->
        IF id = 1 THEN [type |-> "D", parent |-> 10] ELSE [type |-> "R", parent |-> None]]

----------------------------------------------------------------------------
(* Helpers *)

RECURSIVE SortedSeq(_)
\* the elements of a finite set of integers in ascending order (primary-key order)
SortedSeq(S) ==
    IF S = {} THEN <<>>
    ELSE LET m == CHOOSE x \in S : \A y \in S : x <= y
         IN  <<m>> \o SortedSeq(S \ {m})

RECURSIVE Total(_, _)
\* sum of price_valuated over the rows ids (all non-null)
Total(rows, ids) ==
    IF ids = {} THEN 0
    ELSE LET i == CHOOSE x \in ids : TRUE
         IN  rows[i].price_valuated + Total(rows, ids \ {i})

\* SQL Sum('price_valuated') over the rows ids: NULL rows are skipped, and the sum
\* of no value is NULL
SumPriceValuated(rows, ids) ==
    LET valued == {i \in ids : rows[i].price_valuated # None}
    IN  IF valued = {} THEN None ELSE Total(rows, valued)

\* rows w laid over the committed rows db (a transaction's view of a table)
Overlay(db, w) == [k \in DOMAIN db |-> IF k \in DOMAIN w THEN w[k] ELSE db[k]]

\* comparison against a column that may be NULL (NULL never matches)
Lte(x, y) == x # None /\ y # None /\ x <= y
Gte(x, y) == x # None /\ y # None /\ x >= y

----------------------------------------------------------------------------
(* Querysets *)

get_payment_plan_queryset(product, end_date) ==
    SortedSeq({k \in DOMAIN PaymentPlan :
        /\ Gte(PaymentPlan[k].date_valid_to, end_date)
        /\ Lte(PaymentPlan[k].date_valid_from, end_date)
        /\ PaymentPlan[k].benefit_plan = product
        /\ PaymentPlan[k].is_deleted = FALSE})

get_items_queryset(itemRows, claimRows, product, start_date, end_date) ==
    {i \in DOMAIN itemRows :
        /\ itemRows[i].validity_to = None
        /\ Lte(claimRows[itemRows[i].claim].process_stamp, end_date)
        /\ Gte(claimRows[itemRows[i].claim].process_stamp, start_date)
        /\ itemRows[i].product = product}

get_services_queryset(serviceRows, claimRows, product, start_date, end_date) ==
    {i \in DOMAIN serviceRows :
        /\ Lte(claimRows[serviceRows[i].claim].process_stamp, end_date)
        /\ Gte(claimRows[serviceRows[i].claim].process_stamp, start_date)
        /\ serviceRows[i].validity_to = None
        /\ serviceRows[i].product = product}

\* get_claim_queryset with the two bounds of validity_from exchanged
get_claim_queryset_swapped(claimRows, itemRows, serviceRows, product, start_date, end_date) ==
    {c \in DOMAIN claimRows :
        /\ Gte(claimRows[c].validity_from, end_date)
        /\ Lte(claimRows[c].validity_from, start_date)
        /\ claimRows[c].validity_to = None
        /\ Lte(claimRows[c].process_stamp, end_date)
        /\ \/ \E i \in DOMAIN itemRows :
                itemRows[i].claim = c /\ itemRows[i].product = product
           \/ \E i \in DOMAIN serviceRows :
                serviceRows[i].claim = c /\ serviceRows[i].product = product}

get_claim_queryset(claimRows, itemRows, serviceRows, product, start_date, end_date) ==
    {c \in DOMAIN claimRows :
        /\ Lte(claimRows[c].validity_from, end_date)
        /\ Gte(claimRows[c].validity_from, start_date)
        /\ claimRows[c].validity_to = None
        /\ Lte(claimRows[c].process_stamp, end_date)
        /\ \/ \E i \in DOMAIN itemRows :
                itemRows[i].claim = c /\ itemRows[i].product = product
           \/ \E i \in DOMAIN serviceRows :
                serviceRows[i].claim = c /\ serviceRows[i].product = product}

\* the product query without the location filter
get_product_queryset_any_location(end_date, location_id) ==
    SortedSeq({k \in DOMAIN Product :
        /\ Product[k].validity_to = None
        /\ Lte(Product[k].date_from, end_date)
        /\ (Gte(Product[k].date_to, end_date) \/ Product[k].date_to = None)})

get_product_queryset(end_date, location_id) ==
    LET queryset == {k \in DOMAIN Product :
            /\ Product[k].validity_to = None
            /\ Lte(Product[k].date_from, end_date)
            /\ (Gte(Product[k].date_to, end_date) \/ Product[k].date_to = None)}
    IN  IF location_id # None
        THEN SortedSeq({k \in queryset : Product[k].location_id = location_id})
        ELSE SortedSeq({k \in queryset : Product[k].location_id = None})

\* the contribution query without the overlap filter on the policy dates
get_contribution_queryset_no_overlap(premiumRows, product, start_date, end_date) ==
    LET ids == {k \in DOMAIN premiumRows :
            /\ premiumRows[k].validity_to = None
            /\ premiumRows[k].product = product}
    IN  [i \in 1..Cardinality(ids) |-> premiumRows[SortedSeq(ids)[i]]]

\* get_contribution_queryset: the current premiums of the product whose policy
\* overlaps the window, in primary-key order
get_contribution_queryset(premiumRows, product, start_date, end_date) ==
    LET ids == {k \in DOMAIN premiumRows :
            /\ Lte(premiumRows[k].effective_date, end_date)
            /\ Gte(premiumRows[k].expiry_date, start_date)
            /\ premiumRows[k].validity_to = None
            /\ premiumRows[k].product = product}
    IN  [i \in 1..Cardinality(ids) |-> premiumRows[SortedSeq(ids)[i]]]

RECURSIVE get_allocated_premium_loop(_, _, _, _)
\* the loop of get_allocated_premium; the division by a policy_duration of 0 raises
\* ZeroDivisionError
get_allocated_premium_loop(allocated_premiums, premiums, start_date, end_date) ==
    IF premiums = <<>> THEN Returned(allocated_premiums)
    ELSE LET premium == Head(premiums)
             allocation_start == Max(premium.effective_date, start_date)
             allocation_stop == Min(end_date, premium.expiry_date)
             allocation_diff == DaysBetween(allocation_stop, allocation_start) + 1
             policy_duration ==
                 DaysBetween(premium.expiry_date, premium.effective_date) + 1
         IN  IF policy_duration = 0
             THEN [raised |-> TRUE, value |-> Zero]
             ELSE get_allocated_premium_loop(
                      FracAdd(allocated_premiums,
                              Frac(premium.amount * allocation_diff, policy_duration)),
                      Tail(premiums), start_date, end_date)

get_allocated_premium(premiums, start_date, end_date) ==
    get_allocated_premium_loop(Zero, premiums, start_date, end_date)

\* the idempotency query without Coalesce on the location column
already_run_batch_raw_location(runs, year, period, location_id) ==
    \E r \in runs :
        /\ r.run_year = year
        /\ r.run_month = period
        /\ r.location_id = (IF location_id = None THEN -1 ELSE location_id)
        /\ r.validity_to = None

\* the idempotency query of process_batch (and batch_run_already_executed)
already_run_batch(runs, year, period, location_id) ==
    \E r \in runs :
        /\ r.run_year = year
        /\ r.run_month = period
        /\ Coalesce(r.location_id, -1) = (IF location_id = None THEN -1 ELSE location_id)
        /\ r.validity_to = None

----------------------------------------------------------------------------
(* update_claim_valuated *)

\* the subquery without its correlation to the outer claim
detail_sum_uncorrelated(rows, claim) ==
    SumPriceValuated(rows, {i \in DOMAIN rows : rows[i].legacy_id = None})

\* the two correlated subqueries: Sum('price_valuated') over the rows of the claim
\* with legacy_id NULL, NULL when the claim has no such row
detail_sum(rows, claim) ==
    SumPriceValuated(rows, {i \in DOMAIN rows :
        rows[i].claim = claim /\ rows[i].legacy_id = None})

\* claims.update(status, batch_run, remunerated) on the claims ids
update_claim_valuated(claimRows, itemRows, serviceRows, ids, batch_run, claim_based_value_subquery) ==
    [c \in DOMAIN claimRows |->
        IF c \in ids
        THEN [claimRows[c] EXCEPT
                !.status = "VALUATED",
                !.batch_run = batch_run,
                !.remunerated =
                    SqlAdd(SqlAdd(Coalesce(detail_sum(itemRows, c), 0),
                                  Coalesce(detail_sum(serviceRows, c), 0)),
                           Coalesce(claim_based_value_subquery, 0))]
        ELSE claimRows[c]]

----------------------------------------------------------------------------
(* The calculation registry and the calculation rules (package calculation and the *)
(* calcrule packages): not part of claim_batch.                                   *)

\* calculation.services.get_calculation_object
get_calculation_object(calculation) ==
    IF calculation \in RegisteredCalculations THEN calculation ELSE "None"

\* Rows a calculation writes.  The "valuation" rule, called for BatchValuate, prices
\* the items and services of the work data and finalises its claims; the other
\* calls write nothing.
CalculationWrites(rule, context, work_data) ==
    IF rule = "valuation" /\ context = "BatchValuate"
    THEN [claims |-> work_data.claims, items |-> work_data.items,
          services |-> work_data.services]
    ELSE [claims |-> {}, items |-> {}, services |-> {}]

\* calculation.calculate_if_active_for_object(payment_plan, context, work_data, ...)
\* on the tables view: the "valuation" rule sets price_valuated of every item and
\* service of the work data and calls update_claim_valuated(work_data['claims'],
\* work_data['created_run'])
calculate_if_active_for_object(rule, context, work_data, view) ==
    IF rule = "valuation" /\ context = "BatchValuate"
    THEN LET newItems == [i \in DOMAIN view.items |->
                 IF i \in work_data.items
                 THEN [view.items[i] EXCEPT !.price_valuated = view.items[i].price]
                 ELSE view.items[i]]
             newServices == [i \in DOMAIN view.services |->
                 IF i \in work_data.services
                 THEN [view.services[i] EXCEPT !.price_valuated = view.services[i].price]
                 ELSE view.services[i]]
         IN  [claims |-> update_claim_valuated(view.claims, newItems, newServices,
                                               work_data.claims, work_data.created_run, 0),
              items |-> newItems,
              services |-> newServices]
    ELSE view

----------------------------------------------------------------------------
(* Errors and return values *)

ERROR_CODES == [c \in {1, 2} |-> IF c = 1 THEN "General fault" ELSE "Already run before"]

\* ProcessBatchSubmitError(code, msg): msg "" stands for a missing or empty message
ProcessBatchSubmitError(code, msg) ==
    [code |-> code,
     msg |-> IF code \in DOMAIN ERROR_CODES THEN ERROR_CODES[code]
             ELSE IF msg # "" THEN msg ELSE "Unknown exception"]

\* str(error): "ProcessBatchSubmitError <code>: <msg>"
ErrorStr(e) == <<"ProcessBatchSubmitError", e.code, e.msg>>

\* what a call returned: None, a list of error strings, or (old_submit) a string
RetNone == [kind |-> "None", errors |-> <<>>]
RetList(e) == [kind |-> "list", errors |-> <<ErrorStr(e)>>]
RetStr(e) == [kind |-> "str", errors |-> <<ErrorStr(e)>>]

\* str(exc) of the ValueError datetime.date raises for a month outside 1..12
MonthValueError == "month must be in 1..12"
DivisionByZero == "division by zero"

----------------------------------------------------------------------------
(* A caller's transaction: its uncommitted writes and its view of the tables *)

Restrict(f, S) == [k \in S |-> f[k]]

EmptyTx == [runs |-> {}, claims |-> Restrict(<<>>, {}), items |-> Restrict(<<>>, {}),
            services |-> Restrict(<<>>, {})]

View(p) == [claims |-> Overlay(claims, tx[p].claims),
            items |-> Overlay(items, tx[p].items),
            services |-> Overlay(services, tx[p].services)]

\* rows of another open transaction are locked until it ends
Locked(p, writes) ==
    \E q \in Callers \ {p} :
        \/ writes.claims \cap DOMAIN tx[q].claims # {}
        \/ writes.items \cap DOMAIN tx[q].items # {}
        \/ writes.services \cap DOMAIN tx[q].services # {}

IdlePos == [created_run |-> None, i |-> 0, context |-> "BatchValuate", j |-> 0,
            exc |-> "", allocated_contribution |-> <<>>, computed |-> <<>>]
IdleReq == [location_arg |-> None, location_id |-> None, period |-> 0, year |-> 0,
            end_date |-> None]

RECURSIVE Seek_plan_by_plan(_, _, _, _, _)
\* the iteration that does both contexts of a plan before the next plan
Seek_plan_by_plan(end_date, products, i, context, j) ==
    IF i > Len(products)
    THEN [done |-> TRUE, i |-> 0, context |-> "BatchValuate", j |-> 0]
    ELSE IF context = "BatchValuate" /\ j > 1
    THEN [done |-> FALSE, i |-> i, context |-> "BatchPayment", j |-> j - 1]
    ELSE IF j <= Len(get_payment_plan_queryset(products[i], end_date))
    THEN [done |-> FALSE, i |-> i, context |-> "BatchValuate", j |-> j]
    ELSE Seek_plan_by_plan(end_date, products, i + 1, "BatchValuate", 1)

RECURSIVE Seek(_, _, _, _, _)
\* the next payment plan iteration of do_process_batch at or after (i, context, j):
\* products in turn, for each BatchValuate over all its plans, then BatchPayment
Seek(end_date, products, i, context, j) ==
    IF i > Len(products)
    THEN [done |-> TRUE, i |-> 0, context |-> "BatchValuate", j |-> 0]
    ELSE IF j <= Len(get_payment_plan_queryset(products[i], end_date))
    THEN [done |-> FALSE, i |-> i, context |-> context, j |-> j]
    ELSE IF context = "BatchValuate"
    THEN Seek(end_date, products, i, "BatchPayment", 1)
    ELSE Seek(end_date, products, i + 1, "BatchValuate", 1)

\* the dict allocated_contribution with the value stored under the key
CacheWith(allocated_contribution, key, value) ==
    [k \in DOMAIN allocated_contribution \cup {key} |->
        IF k = key THEN value ELSE allocated_contribution[k]]

\* the dict do_process_batch hands to both contexts of a product without clearing
\* it for the next product
product_cache_shared(allocated_contribution, same_product) == allocated_contribution

\* allocated_contribution = {} at the start of every product of do_process_batch;
\* the two contexts and all plans of the product share the dict
product_cache(allocated_contribution, same_product) ==
    IF same_product THEN allocated_contribution ELSE <<>>

\* update_work_data: the window of a product; the allocated contribution is
\* computed when the start date is not yet a key of the dict (raised when
\* get_allocated_premium raised)
update_work_data(view, created_run, product, start_date, end_date, allocated_contribution) ==
    LET contributions == get_contribution_queryset(Premium, product, start_date, end_date)
        hit == start_date \in DOMAIN allocated_contribution
        premium == IF hit THEN Returned(allocated_contribution[start_date])
                   ELSE get_allocated_premium(contributions, start_date, end_date)
    IN  [created_run |-> created_run, product |-> product, end_date |-> end_date,
         start_date |-> start_date, contributions |-> contributions,
         allocated_contributions |-> premium.value,
         raised |-> premium.raised, computed |-> ~hit,
         allocated_contribution |->
             IF hit \/ premium.raised THEN allocated_contribution
             ELSE CacheWith(allocated_contribution, start_date, premium.value),
         items |-> get_items_queryset(view.items, view.claims, product, start_date,
                                      end_date),
         services |-> get_services_queryset(view.services, view.claims, product,
                                            start_date, end_date),
         claims |-> get_claim_queryset(view.claims, view.items, view.services, product,
                                       start_date, end_date)]

----------------------------------------------------------------------------
(* Initial states *)

IdleResolver == [pc |-> "idle", end_date |-> None, periodicity |-> 0,
                 result |-> Returned(None)]
IdleFin == [pc |-> "idle", ids |-> {}, batch_run |-> None, value |-> None,
            before |-> <<>>]
IdleAlloc == [pc |-> "idle", premiums |-> <<>>, start_date |-> None, end_date |-> None,
              split |-> None, whole |-> Returned(Zero), first |-> Returned(Zero),
              second |-> Returned(Zero)]
IdleReport == [pc |-> "idle", data |-> <<>>, group |-> "H", show_claims |-> FALSE,
               result |-> <<>>, raised |-> FALSE]
RetNothing == [kind |-> "no call", errors |-> <<>>]
RetRunning == [kind |-> "running", errors |-> <<>>]
NoCapitation == [invoked |-> {}, queried |-> <<>>, generated |-> <<>>, data |-> {}]

InitCallers ==
    /\ pc = [p \in Callers |-> "idle"]
    /\ req = [p \in Callers |-> IdleReq]
    /\ tx = [p \in Callers |-> EmptyTx]
    /\ pos = [p \in Callers |-> IdlePos]
    /\ ret = [p \in Callers |-> RetNothing]
    /\ calls = [p \in Callers |-> <<>>]
    /\ ncalls = 0

\* Claim 1 has an item and a service of product 1 (and a superseded copy of the
\* item), claim 2 an item of product 2; nothing is valuated and no batch has run.
Init ==
    /\ resolver = IdleResolver
    /\ fin = IdleFin
    /\ alloc = IdleAlloc
    /\ report = IdleReport
    /\ batchRuns = {}
    /\ nextRunId = 1
    /\ \E st \in Claim1Stamps :
         claims = <<ClaimRow(st[1], st[2]), ClaimRow(20210603, 20210610)>>
    /\ items = <<DetailRow(1, 1, 300, None, None, None),
                 DetailRow(2, 2, 100, None, None, None),
                 DetailRow(1, 1, 250, None, 1, 20210401)>>
    /\ services = <<DetailRow(1, 1, 200, None, None, None)>>
    /\ capitation = NoCapitation
    /\ InitCallers

----------------------------------------------------------------------------
(* process_batch *)

\* process_batch up to the idempotency check: an active BatchRun of the key ends the
\* call with error 2
ProcessBatch(p, location_arg, period, year) ==
    /\ pc[p] = "idle"
    /\ ncalls < MaxCalls
    /\ LET location_id == IF location_arg = -1 THEN None ELSE location_arg
           end_date == DateOf(year, period, DaysInMonth(year, period))
       IN  /\ req' = [req EXCEPT ![p] = [location_arg |-> location_arg,
                                         location_id |-> location_id, period |-> period,
                                         year |-> year, end_date |-> end_date]]
           /\ IF already_run_batch(batchRuns \cup tx[p].runs, year, period, location_id)
              THEN /\ pc' = pc
                   /\ ret' = [ret EXCEPT ![p] = RetList(ProcessBatchSubmitError(2, ""))]
              ELSE /\ pc' = [pc EXCEPT ![p] = "checked"]
                   /\ ret' = [ret EXCEPT ![p] = RetRunning]
    /\ calls' = [calls EXCEPT ![p] = <<>>]
    /\ ncalls' = ncalls + 1
    /\ UNCHANGED <<resolver, fin, alloc, report, dbVars, tx, pos, capitation>>

\* ProcessBatchService.submit called while no other call is in progress
Submit(p) ==
    /\ \A q \in Callers : pc[q] = "idle"
    /\ \E l \in LocationArgs, m \in PeriodArgs, y \in YearArgs : ProcessBatch(p, l, m, y)

\* ProcessBatchService.submit called at any time, as many calls as there are callers
SubmitConcurrently(p) ==
    /\ ncalls < NCallers
    /\ \E l \in LocationArgs, m \in PeriodArgs, y \in YearArgs : ProcessBatch(p, l, m, y)

\* do_process_batch up to the product loop: the BatchRun is created first
DoProcessBatch(p) ==
    /\ pc[p] = "checked"
    /\ LET created_run == [id |-> nextRunId, location_id |-> req[p].location_id,
                           run_year |-> YearOf(req[p].end_date),
                           run_month |-> MonthOf(req[p].end_date),
                           validity_to |-> None]
           products == get_product_queryset(req[p].end_date, req[p].location_id)
           first == Seek(req[p].end_date, products, 1, "BatchValuate", 1)
       IN  /\ tx' = [tx EXCEPT ![p].runs = @ \cup {created_run}]
           /\ nextRunId' = nextRunId + 1
           /\ pos' = [pos EXCEPT ![p] = [created_run |-> created_run.id, i |-> first.i,
                                         context |-> first.context, j |-> first.j,
                                         exc |-> "", allocated_contribution |-> <<>>,
                                         computed |-> <<>>]]
           /\ pc' = [pc EXCEPT ![p] = IF first.done THEN "finished" ELSE "running"]
    /\ UNCHANGED <<resolver, fin, alloc, report, batchRuns, claims, items, services, req, ret, calls,
                   capitation, ncalls>>

\* one payment plan iteration of trigger_calculation_based_on_context
TriggerCalculation(p) ==
    /\ pc[p] = "running"
    /\ LET end_date == req[p].end_date
           products == get_product_queryset(end_date, req[p].location_id)
           product == products[pos[p].i]
           plan == get_payment_plan_queryset(product, end_date)[pos[p].j]
           payment_plan == PaymentPlan[plan]
           start_date == get_start_date(end_date, payment_plan.periodicity)
           fires == ~start_date.raised /\ start_date.value # None
           work_data == update_work_data(View(p), pos[p].created_run, product,
                                         start_date.value, end_date,
                                         pos[p].allocated_contribution)
           calculation == get_calculation_object(payment_plan.calculation)
           invoked == fires /\ ~work_data.raised /\ calculation # "None"
           writes == IF invoked
                     THEN CalculationWrites(calculation, pos[p].context, work_data)
                     ELSE CalculationWrites("None", pos[p].context, work_data)
           after == IF invoked
                    THEN calculate_if_active_for_object(calculation, pos[p].context,
                                                        work_data, View(p))
                    ELSE View(p)
           next == Seek(end_date, products, pos[p].i, pos[p].context, pos[p].j + 1)
       IN  /\ ~Locked(p, writes)
           /\ IF start_date.raised
              THEN /\ pc' = [pc EXCEPT ![p] = "raised"]
                   /\ pos' = [pos EXCEPT ![p].exc = MonthValueError]
                   /\ UNCHANGED <<tx, calls>>
              ELSE IF fires /\ work_data.raised
              THEN /\ pc' = [pc EXCEPT ![p] = "raised"]
                   /\ pos' = [pos EXCEPT ![p].exc = DivisionByZero]
                   /\ UNCHANGED <<tx, calls>>
              ELSE /\ pc' = [pc EXCEPT ![p] = IF next.done THEN "finished" ELSE "running"]
                   /\ pos' = [pos EXCEPT
                        ![p].i = next.i, ![p].context = next.context, ![p].j = next.j,
                        ![p].allocated_contribution =
                            product_cache(IF fires THEN work_data.allocated_contribution
                                          ELSE @,
                                          next.i = pos[p].i),
                        ![p].computed =
                            IF fires /\ work_data.computed
                            THEN Append(@, <<product, start_date.value>>) ELSE @]
                   /\ tx' = [tx EXCEPT
                        ![p].claims = Restrict(after.claims, DOMAIN @ \cup writes.claims),
                        ![p].items = Restrict(after.items, DOMAIN @ \cup writes.items),
                        ![p].services =
                            Restrict(after.services, DOMAIN @ \cup writes.services)]
                   /\ calls' = [calls EXCEPT ![p] =
                        IF invoked
                        THEN Append(@, [product |-> product, plan |-> plan,
                                        context |-> pos[p].context,
                                        start_date |-> start_date.value,
                                        allocated_contributions |->
                                            work_data.allocated_contributions])
                        ELSE @]
    /\ UNCHANGED <<resolver, fin, alloc, report, dbVars, req, ret, capitation, ncalls>>

\* process_batch returns, normally or from its except clause: in both cases the
\* function ends without an exception and transaction.atomic commits
Return(p) ==
    /\ pc[p] \in {"finished", "raised"}
    /\ batchRuns' = batchRuns \cup tx[p].runs
    /\ claims' = Overlay(claims, tx[p].claims)
    /\ items' = Overlay(items, tx[p].items)
    /\ services' = Overlay(services, tx[p].services)
    /\ tx' = [tx EXCEPT ![p] = EmptyTx]
    /\ ret' = [ret EXCEPT ![p] =
            IF pc[p] = "finished" THEN RetNone
            ELSE RetList(ProcessBatchSubmitError(-1, pos[p].exc))]
    /\ pc' = [pc EXCEPT ![p] = "idle"]
    /\ pos' = [pos EXCEPT ![p] = IdlePos]
    /\ UNCHANGED <<resolver, fin, alloc, report, nextRunId, req, calls, capitation, ncalls>>

\* exceptions process_batch re-raises
Reraised == {"KeyboardInterrupt", "SystemExit"}

\* an exit of transaction.atomic that keeps the writes although an exception
\* leaves the function
Rollback_commits(committed, writes) == Overlay(committed, writes)

\* transaction.atomic when an exception leaves the function: the writes are dropped
Rollback(committed, writes) == committed

\* KeyboardInterrupt or SystemExit arrives while do_process_batch runs: the except
\* clause re-raises it, so it leaves process_batch and transaction.atomic rolls back
Interrupt(p, exc) ==
    /\ pc[p] \in {"checked", "running"}
    /\ batchRuns' = batchRuns
    /\ claims' = Rollback(claims, tx[p].claims)
    /\ items' = Rollback(items, tx[p].items)
    /\ services' = Rollback(services, tx[p].services)
    /\ tx' = [tx EXCEPT ![p] = EmptyTx]
    /\ ret' = [ret EXCEPT ![p] = [kind |-> "raised", errors |-> <<exc>>]]
    /\ pc' = [pc EXCEPT ![p] = "idle"]
    /\ pos' = [pos EXCEPT ![p] = IdlePos]
    /\ UNCHANGED <<resolver, fin, alloc, report, nextRunId, req, calls, capitation, ncalls>>

----------------------------------------------------------------------------
(* ProcessBatchService.old_submit and the capitation trigger *)

\* ProcessBatchService.batch_run_already_executed
batch_run_already_executed(year, month, location_id) ==
    already_run_batch(batchRuns, year, month, location_id)

\* Python truth value of a location id
Truthy(location_id) == location_id # None /\ location_id # 0

\* _get_capitation_region_and_district; Location.objects.get raises DoesNotExist
\* for an id without a row
get_capitation_region_and_district(location_id) ==
    IF ~Truthy(location_id)
    THEN [raised |-> FALSE, region_id |-> None, district_id |-> None]
    ELSE IF location_id \notin DOMAIN Location
    THEN [raised |-> TRUE, region_id |-> None, district_id |-> None]
    ELSE IF Location[location_id].type = "D"
    THEN [raised |-> FALSE, region_id |-> Location[location_id].parent,
          district_id |-> location_id]
    ELSE IF Location[location_id].type = "R"
    THEN [raised |-> FALSE, region_id |-> location_id, district_id |-> None]
    ELSE [raised |-> FALSE, region_id |-> None, district_id |-> None]

\* products of the passed items and services of valuated claims in the location
capitation_payment_products(location_id) ==
    LET of(rows) == {rows[i].product : i \in {k \in DOMAIN rows :
            /\ claims[rows[k].claim].status = "VALUATED"
            /\ claims[rows[k].claim].validity_to = None
            /\ rows[k].validity_to = None
            /\ rows[k].status = "PASSED"
            /\ Coalesce(Product[rows[k].product].location_id, -1)
                 = (IF Truthy(location_id) THEN location_id ELSE -1)}}
    IN  of(items) \cup of(services)

\* get_commision_payment_report_data: the rows the report procedure returns for
\* the key; an empty result is falsy
get_commision_payment_report_data(cap, params) == params \in cap.data

\* process_capitation_payment_data: the generation procedure stores the report
\* data of the key
process_capitation_payment_data(cap, params) ==
    [cap EXCEPT !.generated = Append(@, params), !.data = @ \cup {params}]

RECURSIVE CapitationLoop_always_generate(_, _, _)
\* the loop without the test of is_report_data_available
CapitationLoop_always_generate(cap, products, params) ==
    IF products = <<>> THEN cap
    ELSE LET prms == [params EXCEPT !.prod_id = Head(products)]
             queried == [cap EXCEPT !.queried = Append(@, prms)]
         IN  CapitationLoop_always_generate(
                 process_capitation_payment_data(queried, prms),
                 Tail(products), params)

RECURSIVE CapitationLoop(_, _, _)
\* the loop over the products: query the report data, generate it when there is none
CapitationLoop(cap, products, params) ==
    IF products = <<>> THEN cap
    ELSE LET prms == [params EXCEPT !.prod_id = Head(products)]
             is_report_data_available == get_commision_payment_report_data(cap, prms)
             queried == [cap EXCEPT !.queried = Append(@, prms)]
         IN  CapitationLoop(
                 IF ~is_report_data_available
                 THEN process_capitation_payment_data(queried, prms)
                 ELSE queried,
                 Tail(products), params)

\* capitation_report_data_for_summit(submit)
capitation_report_data_for_summit(cap, submit) ==
    LET where == get_capitation_region_and_district(submit.location_id)
    IN  CapitationLoop(
            [cap EXCEPT !.invoked = @ \cup {submit}],
            SortedSeq(capitation_payment_products(submit.location_id)),
            [region_id |-> where.region_id, district_id |-> where.district_id,
             prod_id |-> None, year |-> submit.year, month |-> submit.month])

\* result codes of the stored procedure uspBatchProcess (0 means "all done")
StoredProcedureResults == {0, 1}

\* old_submit: the stored procedure does the batch (its own writes are outside this
\* model), then the capitation trigger runs
OldSubmit(p, location_id, month, year) ==
    /\ \A q \in Callers : pc[q] = "idle"
    /\ ncalls < MaxCalls
    /\ ncalls' = ncalls + 1
    /\ req' = [req EXCEPT ![p] = [location_arg |-> location_id,
                                  location_id |-> location_id, period |-> month,
                                  year |-> year, end_date |-> None]]
    /\ calls' = [calls EXCEPT ![p] = <<>>]
    /\ LET submit == [location_id |-> location_id, year |-> year, month |-> month]
       IN  IF batch_run_already_executed(year, month, location_id)
           THEN /\ ret' = [ret EXCEPT ![p] = RetStr(ProcessBatchSubmitError(2, ""))]
                /\ UNCHANGED capitation
           ELSE \E res \in StoredProcedureResults :
                  IF res # 0
                  THEN /\ ret' = [ret EXCEPT ![p] = RetStr(ProcessBatchSubmitError(res, ""))]
                       /\ UNCHANGED capitation
                  ELSE IF get_capitation_region_and_district(location_id).raised
                  THEN /\ ret' = [ret EXCEPT ![p] =
                                    [kind |-> "raised", errors |-> <<"DoesNotExist">>]]
                       /\ UNCHANGED capitation
                  ELSE /\ ret' = [ret EXCEPT ![p] = RetNone]
                       /\ capitation' = capitation_report_data_for_summit(capitation, submit)
    /\ UNCHANGED <<resolver, fin, alloc, report, dbVars, pc, tx, pos>>

----------------------------------------------------------------------------
(* Specifications *)

\* calls one after the other: who calls makes no difference, so one caller makes them
Sequential == {CHOOSE p \in Callers : \A q \in Callers : p <= q}

Next ==
    \/ \E p \in Sequential : Submit(p)
    \/ \E p \in Sequential : DoProcessBatch(p)
    \/ \E p \in Sequential : TriggerCalculation(p)
    \/ \E p \in Sequential : Return(p)
    \/ \E p \in Sequential, exc \in Reraised : Interrupt(p, exc)
    \/ \E p \in Sequential, l \in LocationArgs, m \in PeriodArgs, y \in YearArgs :
         OldSubmit(p, l, m, y)

Spec == Init /\ [][Next]_vars

\* process_batch calls that overlap, each in its own transaction
NextConcurrent ==
    \/ \E p \in Callers : SubmitConcurrently(p)
    \/ \E p \in Callers : DoProcessBatch(p)
    \/ \E p \in Callers : TriggerCalculation(p)
    \/ \E p \in Callers : Return(p)

\* The overlapping calls run on the data of the test: claim 1 entered and
\* processed within April 2021
InitConcurrent ==
    /\ Init
    /\ claims[1].validity_from = 20210405

SpecConcurrent == InitConcurrent /\ [][NextConcurrent]_vars

----------------------------------------------------------------------------
(* get_start_date on its own: any end date, any periodicity *)

ResolverYears == {2020, 2021}

InitResolver ==
    /\ resolver \in {[pc |-> "called", end_date |-> DateOf(y, m, DaysInMonth(y, m)),
                      periodicity |-> k, result |-> Returned(None)] :
                        y \in ResolverYears, m \in 1..12, k \in 0..MaxPeriodicity}
    /\ fin = IdleFin
    /\ alloc = IdleAlloc
    /\ report = IdleReport
    /\ batchRuns = {}
    /\ nextRunId = 1
    /\ claims = <<>>
    /\ items = <<>>
    /\ services = <<>>
    /\ capitation = NoCapitation
    /\ InitCallers

ResolveStartDate ==
    /\ resolver.pc = "called"
    /\ resolver' = [resolver EXCEPT
            !.pc = "returned",
            !.result = get_start_date(resolver.end_date, resolver.periodicity)]
    /\ UNCHANGED <<fin, alloc, report, dbVars, procVars>>

SpecResolver == InitResolver /\ [][ResolveStartDate]_vars

----------------------------------------------------------------------------
(* update_claim_valuated on its own: any claims, any valuated prices *)

DetailRows(n, prices) ==
    [1..n -> {DetailRow(c, 1, 0, pv, legacy_id, None) :
                c \in {1, 2}, pv \in prices, legacy_id \in {None, 9}}]

\* claim-level values a caller passes (the default is 0)
ClaimBasedValues == {None, 0, 50}

InitFinalise ==
    /\ resolver = IdleResolver
    /\ alloc = IdleAlloc
    /\ report = IdleReport
    /\ fin = [pc |-> "ready", ids |-> {}, batch_run |-> None, value |-> None,
              before |-> <<>>]
    /\ batchRuns = {[id |-> 1, location_id |-> None, run_year |-> 2021, run_month |-> 6,
                     validity_to |-> None]}
    /\ nextRunId = 2
    /\ claims = <<ClaimRow(20210603, 20210610), ClaimRow(20210603, 20210610)>>
    /\ items \in DetailRows(MaxItems, {None, 300})
    /\ services \in DetailRows(MaxServices, {None, 200})
    /\ capitation = NoCapitation
    /\ InitCallers

\* a calculation rule calls update_claim_valuated(claims, batch_run, value)
Finalise(ids, batch_run, value) ==
    /\ fin.pc = "ready"
    /\ fin' = [pc |-> "updated", ids |-> ids, batch_run |-> batch_run, value |-> value,
               before |-> claims]
    /\ claims' = update_claim_valuated(claims, items, services, ids, batch_run, value)
    /\ UNCHANGED <<resolver, alloc, report, batchRuns, items, services, nextRunId, procVars>>

NextFinalise ==
    \E ids \in SUBSET DOMAIN claims, r \in batchRuns, value \in ClaimBasedValues :
        Finalise(ids, r.id, value)

SpecFinalise == InitFinalise /\ [][NextFinalise]_vars

----------------------------------------------------------------------------
(* get_allocated_premium on its own: any premiums of a product, any window, the
   window also cut in two at any of its days *)

\* premiums in the table
MaxPremiums == 2

\* days around the end of February 2021
AllocDays == {20210227, 20210228, 20210301, 20210302}

PremiumTables ==
    UNION {[1..n -> {PremiumRow(100, 1, a, b) : a, b \in AllocDays}] : n \in 0..MaxPremiums}

InitAllocation ==
    /\ resolver = IdleResolver
    /\ fin = IdleFin
    /\ report = IdleReport
    /\ \E rows \in PremiumTables, s, e \in AllocDays, m \in AllocDays \cup {None} :
         /\ s <= e
         /\ m = None \/ (s <= m /\ m < e)
         /\ alloc = [IdleAlloc EXCEPT !.pc = "called", !.premiums = rows,
                                      !.start_date = s, !.end_date = e, !.split = m]
    /\ batchRuns = {}
    /\ nextRunId = 1
    /\ claims = <<>>
    /\ items = <<>>
    /\ services = <<>>
    /\ capitation = NoCapitation
    /\ InitCallers

\* the allocation assembled for a window of product 1, as update_work_data does
Allocation(start_date, end_date) ==
    get_allocated_premium(
        get_contribution_queryset(alloc.premiums, 1, start_date, end_date),
        start_date, end_date)

AllocatePremium ==
    /\ alloc.pc = "called"
    /\ alloc' = [alloc EXCEPT
            !.pc = "returned",
            !.whole = Allocation(alloc.start_date, alloc.end_date),
            !.first = IF alloc.split = None THEN @
                      ELSE Allocation(alloc.start_date, alloc.split),
            !.second = IF alloc.split = None THEN @
                       ELSE Allocation(NextDay(alloc.split), alloc.end_date)]
    /\ UNCHANGED <<resolver, fin, report, dbVars, procVars>>

SpecAllocation == InitAllocation /\ [][AllocatePremium]_vars

----------------------------------------------------------------------------
(* ReportDataService.fetch: the sums of the report rows.  Names and codes are
   numbers in the order of the strings they stand for. *)

\* rows the report procedure returns
MaxRows == 2

Names == {1, 2}
Amounts == {10, 25}

\* the money columns summed when the claims are shown
MoneyColumns == {"PriceAsked", "PriceApproved", "PriceAdjusted", "RemuneratedAmount"}

\* a row of process_batch_report_data
SummaryRow(region, district, hf, product, amount) ==
    [RegionName |-> region, DistrictName |-> district, HFCode |-> hf, HFName |-> hf,
     ProductCode |-> product, ProductName |-> product, RemuneratedAmount |-> amount,
     AccCodeRemuneration |-> 7, AccCode |-> 8]

\* a row of process_batch_report_data_with_claims (the columns the sums use, and
\* the claim code)
ClaimsRow(region, district, hf, product, amount) ==
    [ClaimCode |-> 9, RegionName |-> region, DistrictName |-> district, HFCode |-> hf,
     ProductCode |-> product, PriceAsked |-> amount + 20, PriceApproved |-> amount + 10,
     PriceAdjusted |-> amount + 5, RemuneratedAmount |-> amount]

\* rows of any region, district and amount; the code the mode groups by varies,
\* the other code is that of one facility or product
ReportRows(show_claims, group) ==
    {IF show_claims THEN ClaimsRow(r, d, h, p, a) ELSE SummaryRow(r, d, h, p, a) :
        r \in Names, d \in Names, a \in Amounts,
        h \in (IF group = "H" THEN Names ELSE {1}),
        p \in (IF group = "H" THEN {1} ELSE Names)}

RECURSIVE SeqSum(_)
SeqSum(seq) == IF seq = <<>> THEN 0 ELSE Head(seq) + SeqSum(Tail(seq))

\* the group key of a row: the value of the column, or the tuple of the values
GroupKey(row, by) == IF Len(by) = 1 THEN row[by[1]] ELSE [i \in DOMAIN by |-> row[by[i]]]

\* df.groupby(by)[column].sum().to_dict()
groupby_sum(df, by, column) ==
    [key \in {GroupKey(df[i], by) : i \in DOMAIN df} |->
        SeqSum([i \in DOMAIN df |->
                   IF GroupKey(df[i], by) = key THEN df[i][column] ELSE 0])]

\* df.groupby(by)[the money columns].sum().to_dict() or the sum of RemuneratedAmount
sums_by(df, by, show_claims) ==
    IF show_claims
    THEN [column \in MoneyColumns |-> groupby_sum(df, by, column)]
    ELSE groupby_sum(df, by, "RemuneratedAmount")

regions_sum(df, show_claims) == sums_by(df, <<"RegionName">>, show_claims)

\* district sums grouped by the district name alone
districts_sum_by_name(df, show_claims) ==
    LET byName == sums_by(df, <<"DistrictName">>, show_claims)
        keys == {GroupKey(df[i], <<"RegionName", "DistrictName">>) : i \in DOMAIN df}
    IN  IF show_claims
        THEN [column \in MoneyColumns |-> [key \in keys |-> byName[column][key[2]]]]
        ELSE [key \in keys |-> byName[key[2]]]

districts_sum(df, show_claims) == sums_by(df, <<"RegionName", "DistrictName">>, show_claims)

health_facilities_sum(df, show_claims) ==
    sums_by(df, <<"RegionName", "DistrictName", "HFCode">>, show_claims)

products_sum(df, show_claims) ==
    sums_by(df, <<"RegionName", "DistrictName", "ProductCode">>, show_claims)

\* the fields prefix_<column> of a row, read from sums at key
SumFields(prefix, sums, key, show_claims) ==
    IF show_claims
    THEN [f \in {prefix \o "_" \o column : column \in MoneyColumns} |->
            sums[CHOOSE column \in MoneyColumns : f = prefix \o "_" \o column][key]]
    ELSE [f \in {prefix \o "_RemuneratedAmount"} |-> sums[key]]

region_and_district_sums(row, regions, districts, show_claims) ==
    SumFields("SUMR", regions, row.RegionName, show_claims)
      @@ SumFields("SUMD", districts, <<row.RegionName, row.DistrictName>>, show_claims)

\* {**row, **sums}: the keys of sums override those of row
Merge(row, sums) == sums @@ row

\* tuple comparison a < b of Python
TupleLess(a, b) ==
    \E i \in DOMAIN a : a[i] < b[i] /\ \A j \in 1..(i - 1) : a[j] = b[j]

SortKey(row, code) == <<row.RegionName, row.DistrictName, row[code]>>

RECURSIVE Insert(_, _, _)
\* row put into the sorted rows behind the rows that are not greater
Insert(rows, row, code) ==
    IF rows = <<>> THEN <<row>>
    ELSE IF TupleLess(SortKey(row, code), SortKey(Head(rows), code))
    THEN <<row>> \o rows
    ELSE <<Head(rows)>> \o Insert(Tail(rows), row, code)

\* the rows left in the order of the input
sorted_as_given(data, code) == data

RECURSIVE sorted(_, _)
\* sorted(data, key=(RegionName, DistrictName, code)): stable, ascending
sorted(data, code) ==
    IF data = <<>> THEN <<>>
    ELSE Insert(sorted(SubSeq(data, 1, Len(data) - 1), code), data[Len(data)], code)

add_sums_by_hf(data, regions, districts, facilities, show_claims) ==
    sorted([i \in DOMAIN data |->
                Merge(data[i],
                      region_and_district_sums(data[i], regions, districts, show_claims)
                        @@ SumFields("SUMHF", facilities,
                                     <<data[i].RegionName, data[i].DistrictName,
                                       data[i].HFCode>>, show_claims))],
           "HFCode")

add_sums_by_prod(data, regions, districts, products, show_claims) ==
    sorted([i \in DOMAIN data |->
                Merge(data[i],
                      region_and_district_sums(data[i], regions, districts, show_claims)
                        @@ SumFields("SUMP", products,
                                     <<data[i].RegionName, data[i].DistrictName,
                                       data[i].ProductCode>>, show_claims))],
           "ProductCode")

\* ReportDataService.fetch on the rows data the report procedure returned: raises
\* ValueError("claim_batch.reports.nodata") for no rows
fetch(data, group, show_claims) ==
    IF data = <<>> THEN [raised |-> TRUE, value |-> <<>>]
    ELSE Returned(
        IF group = "H"
        THEN add_sums_by_hf(data, regions_sum(data, show_claims),
                            districts_sum(data, show_claims),
                            health_facilities_sum(data, show_claims), show_claims)
        ELSE add_sums_by_prod(data, regions_sum(data, show_claims),
                              districts_sum(data, show_claims),
                              products_sum(data, show_claims), show_claims))

\* values of the request parameter "group"
Groups == {"H", "P"}

InitReport ==
    /\ resolver = IdleResolver
    /\ fin = IdleFin
    /\ alloc = IdleAlloc
    /\ \E show_claims \in BOOLEAN, group \in Groups :
         \E data \in UNION {[1..n -> ReportRows(show_claims, group)] : n \in 0..MaxRows} :
            report = [pc |-> "called", data |-> data, group |-> group,
                      show_claims |-> show_claims, result |-> <<>>, raised |-> FALSE]
    /\ batchRuns = {}
    /\ nextRunId = 1
    /\ claims = <<>>
    /\ items = <<>>
    /\ services = <<>>
    /\ capitation = NoCapitation
    /\ InitCallers

Fetch ==
    /\ report.pc = "called"
    /\ LET fetched == fetch(report.data, report.group, report.show_claims)
       IN  report' = [report EXCEPT !.pc = "returned", !.result = fetched.value,
                                    !.raised = fetched.raised]
    /\ UNCHANGED <<resolver, fin, alloc, dbVars, procVars>>

SpecReport == InitReport /\ [][Fetch]_vars

----------------------------------------------------------------------------
(* Properties *)

\* the run key of a location: None and -1 are the same "no location"
KeyLocation(location_id) == IF location_id \in {None, -1} THEN -1 ELSE location_id

\* the active BatchRuns of a key among runs
OpenRuns(runs, year, month, location_id) ==
    {r \in runs : /\ r.validity_to = None
                  /\ r.run_year = year
                  /\ r.run_month = month
                  /\ KeyLocation(r.location_id) = KeyLocation(location_id)}

AlreadyRun == <<"ProcessBatchSubmitError", 2, "Already run before">>

\* caller p starts a process_batch call in this step
Starts(p) == pc[p] = "idle" /\ ncalls' = ncalls + 1 /\ req'[p].end_date # None

\* the last call of p was a process_batch call that has returned
Ended(p) == pc[p] = "idle" /\ ret[p].kind \in {"None", "list"} /\ req[p].end_date # None

OneOpenRunPerKey(runs) ==
    \A y \in YearArgs, m \in PeriodArgs, l \in LocationArgs :
        Cardinality(OpenRuns(runs, y, m, l)) <= 1

RejectedWhenAlreadyRun ==
    \A p \in Callers :
        (Starts(p) /\ OpenRuns(batchRuns, req'[p].year, req'[p].period,
                               req'[p].location_arg) # {})
        => /\ ret'[p] = [kind |-> "list", errors |-> <<AlreadyRun>>]
           /\ pc'[p] = "idle"
           /\ calls'[p] = <<>>
           /\ UNCHANGED <<dbVars, tx>>

\* C1: with calls made one after the other there is never more than one active
\* BatchRun per (year, month, location) key, None and -1 being the same location:
\* a call for a key that has an active BatchRun returns ["... 2: Already run
\* before"], creates no BatchRun, invokes no calculation and leaves every table
\* (so every claim) as it was.
C1_AlreadyRunIsRejected ==
    /\ [](\A p \in Callers : OneOpenRunPerKey(batchRuns \cup tx[p].runs))
    /\ [][RejectedWhenAlreadyRun]_vars

\* C1 witness: a call passing location -1 was rejected because of the run made for
\* location None, and claim 1 keeps what that run wrote
C1_Witness ==
    \E p \in Callers :
        /\ Ended(p)
        /\ ret[p].errors = <<AlreadyRun>>
        /\ req[p].location_arg = -1
        /\ \E r \in batchRuns : r.location_id = None /\ r.run_month = req[p].period
                                /\ claims[1].batch_run = r.id

\* C2: two overlapping process_batch calls for one key never both commit an open
\* BatchRun: the committed table holds at most one active BatchRun per key.
C2_OneOpenRunPerKey == OneOpenRunPerKey(batchRuns)

\* the last call of p returned the error made from a caught exception
Failed(p) == Ended(p) /\ ret[p].kind = "list" /\ ret[p].errors[1][2] = -1

\* C3: after process_batch returned the processing error of an exception raised
\* inside do_process_batch, the error carries the exception's message and the
\* transaction is rolled back: no BatchRun of the key is committed and no claim
\* carries a batch run that is not committed under another key.
C3_FailedRunIsRolledBack ==
    \A p \in Callers :
        Failed(p) =>
            /\ ret[p].errors[1][3] = MonthValueError
            /\ OpenRuns(batchRuns, req[p].year, req[p].period, req[p].location_id) = {}
            /\ \A c \in DOMAIN claims :
                 \/ claims[c].batch_run = None
                 \/ \E r \in batchRuns :
                      /\ r.id = claims[c].batch_run
                      /\ r \notin OpenRuns(batchRuns, req[p].year, req[p].period,
                                           req[p].location_id)

\* C4: a call for the key of the call that has just failed is not rejected as
\* already run: it finds no active BatchRun of the key and runs again.
C4_FailedRunCanBeRetried ==
    [][\A p \in Callers :
         (Failed(p) /\ Starts(p)
            /\ req'[p].year = req[p].year /\ req'[p].period = req[p].period
            /\ req'[p].location_id = req[p].location_id)
         => /\ OpenRuns(batchRuns, req[p].year, req[p].period, req[p].location_id) = {}
            /\ pc'[p] = "checked"]_vars

\* the period table of get_start_date
StartDateTable(year, month, periodicity) ==
    CASE periodicity = 1 -> DateOf(year, month, 1)
      [] periodicity = 2 -> IF month % 2 # 0 THEN None ELSE DateOf(year, month - 1, 1)
      [] periodicity = 3 -> IF month % 3 # 0 THEN None ELSE DateOf(year, month - 2, 1)
      [] periodicity = 4 -> IF month % 4 # 0 THEN None ELSE DateOf(year, month - 4, 1)
      [] periodicity = 6 -> IF month % 6 # 0 THEN None ELSE DateOf(year, month - 5, 1)
      [] periodicity = 12 -> IF month = 12 THEN DateOf(year, 1, 1) ELSE None
      [] OTHER -> None

\* C5: for every end date and periodicity get_start_date returns what the period
\* table says, a date or None, and never raises.
C5_StartDateFollowsTable ==
    resolver.pc = "returned" =>
        /\ ~resolver.result.raised
        /\ resolver.result.value = StartDateTable(YearOf(resolver.end_date),
                                                  MonthOf(resolver.end_date),
                                                  resolver.periodicity)
        /\ \/ resolver.result.value = None
           \/ /\ MonthOf(resolver.result.value) \in 1..12
              /\ DayOf(resolver.result.value) = 1
              /\ YearOf(resolver.result.value) = YearOf(resolver.end_date)

\* the calculation invoked at place a of the trace of p
IsCall(p, a, product, plan, context) ==
    /\ calls[p][a].product = product
    /\ calls[p][a].plan = plan
    /\ calls[p][a].context = context

\* C6 as stated: BatchValuate and then BatchPayment are both invoked for a plan
\* before any calculation is invoked for another plan of the product (the trace is
\* Valuate(p1), Payment(p1), Valuate(p2), Payment(p2)).
C6_BothContextsBeforeNextPlan ==
    \A p \in Callers : \A a, b \in 1..Len(calls[p]) :
        (a < b /\ calls[p][a].product = calls[p][b].product
               /\ calls[p][a].plan < calls[p][b].plan)
        => \E v, w \in 1..(b - 1) :
              /\ v < w
              /\ IsCall(p, v, calls[p][a].product, calls[p][a].plan, "BatchValuate")
              /\ IsCall(p, w, calls[p][a].product, calls[p][a].plan, "BatchPayment")

\* C6 amended: within a run the calculations of a product are invoked context by
\* context: BatchValuate for every firing plan of the product, in plan order, and
\* only then BatchPayment for every firing plan, in plan order (the trace is
\* Valuate(p1), Valuate(p2), Payment(p1), Payment(p2)); so the BatchValuate
\* invocation of a plan completes before its BatchPayment invocation starts, both
\* contexts of a product are done before the next product, and a run that finishes
\* has invoked BatchPayment for every plan it invoked BatchValuate for.
C6_ValuateAllPlansThenPayment ==
    \A p \in Callers :
        /\ \A a, b \in 1..Len(calls[p]) :
             (a < b /\ calls[p][a].product = calls[p][b].product) =>
                /\ ~(calls[p][a].context = "BatchPayment"
                     /\ calls[p][b].context = "BatchValuate")
                /\ calls[p][a].context = calls[p][b].context
                     => calls[p][a].plan < calls[p][b].plan
        /\ \A b \in 1..Len(calls[p]) :
             calls[p][b].context = "BatchPayment" =>
                \E a \in 1..(b - 1) :
                    IsCall(p, a, calls[p][b].product, calls[p][b].plan, "BatchValuate")
        /\ \A a, b, c \in 1..Len(calls[p]) :
             (a < b /\ b < c /\ calls[p][a].product = calls[p][c].product)
                => calls[p][b].product = calls[p][a].product
        /\ (pc[p] = "finished" \/ (Ended(p) /\ ret[p] = RetNone)) =>
             \A a \in 1..Len(calls[p]) :
                calls[p][a].context = "BatchValuate" =>
                    \E b \in (a + 1)..Len(calls[p]) :
                        IsCall(p, b, calls[p][a].product, calls[p][a].plan, "BatchPayment")

\* C6 witness: a trace Valuate(p1), Valuate(p2), Payment(p1), Payment(p2) of two
\* plans of one product, followed by a calculation of another product
C6_Witness ==
    \E p \in Callers : \E a, b, c, d, e \in 1..Len(calls[p]) :
        /\ a < b /\ b < c /\ c < d /\ d < e
        /\ calls[p][a].plan # calls[p][b].plan
        /\ IsCall(p, a, calls[p][a].product, calls[p][a].plan, "BatchValuate")
        /\ IsCall(p, b, calls[p][a].product, calls[p][b].plan, "BatchValuate")
        /\ IsCall(p, c, calls[p][a].product, calls[p][a].plan, "BatchPayment")
        /\ IsCall(p, d, calls[p][a].product, calls[p][b].plan, "BatchPayment")
        /\ calls[p][e].product # calls[p][a].product

\* claim c has a current item or service without a valuated price
HasUnvalued(c) ==
    \/ \E i \in DOMAIN items : /\ items[i].claim = c
                               /\ items[i].legacy_id = None
                               /\ items[i].price_valuated = None
    \/ \E i \in DOMAIN services : /\ services[i].claim = c
                                  /\ services[i].legacy_id = None
                                  /\ services[i].price_valuated = None

\* C7: update_claim_valuated transitions only fully valuated claims: a claim passed
\* to it that has an item or service without price_valuated keeps its status,
\* batch_run and remunerated.
C7_UnvaluedClaimIsKept ==
    fin.pc = "updated" =>
        \A c \in fin.ids : HasUnvalued(c) => claims[c] = fin.before[c]

RECURSIVE ValuatedTotal(_, _, _)
\* price_valuated added up over the first n rows that belong to claim c, are current
\* (legacy_id NULL) and have a price
ValuatedTotal(rows, n, c) ==
    IF n = 0 THEN 0
    ELSE ValuatedTotal(rows, n - 1, c)
         + (IF rows[n].claim = c /\ rows[n].legacy_id = None
               /\ rows[n].price_valuated # None
            THEN rows[n].price_valuated ELSE 0)

\* C8: every claim passed to update_claim_valuated gets, in the one update,
\* status VALUATED, the batch run, and remunerated = the valuated prices of its
\* (current) items + those of its (current) services + the claim-level value, a
\* missing or NULL part counting as 0, so remunerated is never NULL; the other
\* claims are not touched.
C8_RemuneratedIsTheSum ==
    fin.pc = "updated" =>
        \A c \in DOMAIN claims :
            IF c \in fin.ids
            THEN /\ claims[c].status = "VALUATED"
                 /\ claims[c].batch_run = fin.batch_run
                 /\ claims[c].remunerated # None
                 /\ claims[c].remunerated =
                        ValuatedTotal(items, Len(items), c)
                        + ValuatedTotal(services, Len(services), c)
                        + (IF fin.value = None THEN 0 ELSE fin.value)
                 /\ claims[c].validity_from = fin.before[c].validity_from
                 /\ claims[c].process_stamp = fin.before[c].process_stamp
            ELSE claims[c] = fin.before[c]

\* C8 witness: a finalised claim with valuated items, no service at all and a NULL
\* claim-level value, next to a claim that was not passed
C8_Witness ==
    /\ fin.pc = "updated"
    /\ fin.value = None
    /\ \E c \in fin.ids :
         /\ claims[c].remunerated > 0
         /\ \A i \in DOMAIN services : services[i].claim # c
         /\ \E i \in DOMAIN items : items[i].claim = c /\ items[i].price_valuated = None
    /\ fin.ids # DOMAIN claims

\* the last call of p was a process_batch call that completed without error
Succeeded(p) == Ended(p) /\ ret[p] = RetNone

\* product is active at end_date for the location and has a monthly payment plan
\* valid at end_date, whose calculation is one of kinds
HasMonthlyPlan(product, end_date, location_id, kinds) ==
    /\ Product[product].validity_to = None
    /\ Product[product].date_from <= end_date
    /\ (Product[product].date_to = None \/ Product[product].date_to >= end_date)
    /\ KeyLocation(Product[product].location_id) = KeyLocation(location_id)
    /\ \E k \in DOMAIN PaymentPlan :
         /\ PaymentPlan[k].benefit_plan = product
         /\ PaymentPlan[k].periodicity = 1
         /\ ~PaymentPlan[k].is_deleted
         /\ PaymentPlan[k].date_valid_from <= end_date
         /\ PaymentPlan[k].date_valid_to >= end_date
         /\ PaymentPlan[k].calculation \in kinds

\* the current items (services) of claim c
CurrentOf(rows, c) ==
    {i \in DOMAIN rows : rows[i].claim = c /\ rows[i].validity_to = None
                         /\ rows[i].legacy_id = None}

\* claim c has one item and one service, both of product
OneItemOneService(c, product) ==
    /\ Cardinality(CurrentOf(items, c)) = 1
    /\ Cardinality(CurrentOf(services, c)) = 1
    /\ \A i \in CurrentOf(items, c) : items[i].product = product
    /\ \A i \in CurrentOf(services, c) : services[i].product = product

InMonth(stamp, end_date) ==
    /\ stamp # None
    /\ DateOf(YearOf(end_date), MonthOf(end_date), 1) <= stamp
    /\ stamp <= end_date

\* the run left an open BatchRun of its key and claim c VALUATED, remunerated with
\* the valuated prices of its item and its service
ValuatedByRun(p, c) ==
    /\ OpenRuns(batchRuns, req[p].year, req[p].period, req[p].location_id) # {}
    /\ claims[c].status = "VALUATED"
    /\ \A i \in CurrentOf(items, c), j \in CurrentOf(services, c) :
         /\ items[i].price_valuated # None
         /\ services[j].price_valuated # None
         /\ claims[c].remunerated = items[i].price_valuated + services[j].price_valuated

C10_CapitationAfterSuccess ==
    [][\A p \in Callers :
         /\ (pc[p] = "finished" /\ pc'[p] = "idle") =>
               \E s \in capitation'.invoked :
                  /\ KeyLocation(s.location_id) = KeyLocation(req[p].location_id)
                  /\ s.year = req[p].year
                  /\ s.month = req[p].period
         /\ (pc[p] = "raised" /\ pc'[p] = "idle") => capitation' = capitation
         /\ (Starts(p) /\ pc'[p] = "idle") => capitation' = capitation]_vars

----------------------------------------------------------------------------
(* The capitation trigger *)

\* the products the trigger of a submit is about: those of a current, passed item
\* or service of a current VALUATED claim, the product lying in the location
ValuatedProducts(location_id) ==
    LET here == IF location_id = None \/ location_id = 0 THEN None ELSE location_id
        ok(r) == /\ r.validity_to = None /\ r.status = "PASSED"
                 /\ claims[r.claim].status = "VALUATED"
                 /\ claims[r.claim].validity_to = None
                 /\ Product[r.product].location_id = here
    IN  {items[i].product : i \in {k \in DOMAIN items : ok(items[k])}}
          \cup {services[i].product : i \in {k \in DOMAIN services : ok(services[k])}}

\* the part of sequence after that was appended to sequence before
Appended(before, after) == SubSeq(after, Len(before) + 1, Len(after))

Range(seq) == {seq[i] : i \in DOMAIN seq}

\* one run of the trigger for the submit: one query per product, for the region
\* and district of the location, and a generation exactly for the keys without data
TriggerRan(submit) ==
    LET queried == Appended(capitation.queried, capitation'.queried)
        generated == Appended(capitation.generated, capitation'.generated)
        where == IF submit.location_id \in DOMAIN Location
                 THEN IF Location[submit.location_id].type = "D"
                      THEN <<Location[submit.location_id].parent, submit.location_id>>
                      ELSE <<submit.location_id, None>>
                 ELSE <<None, None>>
    IN  /\ Len(queried) = Cardinality(ValuatedProducts(submit.location_id))
        /\ Range(queried) =
             {[region_id |-> where[1], district_id |-> where[2], prod_id |-> prod,
               year |-> submit.year, month |-> submit.month] :
                 prod \in ValuatedProducts(submit.location_id)}
        /\ Range(generated) = {k \in Range(queried) : k \notin capitation.data}
        /\ Len(generated) = Cardinality(Range(generated))
        /\ \A k \in capitation.data : k \notin Range(generated)

\* C11: the capitation trigger is generate-if-missing: a run of the trigger queries
\* the report data once for each distinct product of a valuated claim's item or
\* service in the location, with the key (region, district, product, year, month),
\* and calls the generation for a key if and only if the query found no data; no
\* key is ever generated twice, so a second run with unchanged claims generates
\* nothing.
C11_GenerateIfMissing ==
    /\ [][capitation' # capitation =>
            \E s \in capitation'.invoked : TriggerRan(s)]_vars
    /\ [](\A i, j \in DOMAIN capitation.generated :
            capitation.generated[i] = capitation.generated[j] => i = j)

\* the trigger has run twice for a key: generated the first time, skipped the second
C11_Witness ==
    \E i, j \in DOMAIN capitation.queried :
        /\ i < j
        /\ capitation.queried[i] = capitation.queried[j]
        /\ Len(capitation.generated) < Len(capitation.queried)
        /\ capitation.generated # <<>>

----------------------------------------------------------------------------
(* The allocated contribution *)

\* contributions the overlap filter selects for the window
Selected(start_date, end_date) ==
    {k \in DOMAIN alloc.premiums :
        /\ alloc.premiums[k].effective_date <= end_date
        /\ alloc.premiums[k].expiry_date >= start_date}

Inverted(k) == alloc.premiums[k].expiry_date < alloc.premiums[k].effective_date

\* C12: the allocation of a window fails with an error whenever a contribution of
\* the window has a policy whose expiry date lies before its effective date; no
\* number is returned that was computed from a zero or negative policy duration.
C12_InvertedPolicyFails ==
    alloc.pc = "returned" =>
        ((\E k \in Selected(alloc.start_date, alloc.end_date) : Inverted(k))
            => alloc.whole.raised)

\* amount * overlap_days / policy_total_days of one contribution, day counts inclusive
Share(k, start_date, end_date) ==
    LET row == alloc.premiums[k]
        overlap_days ==
            toordinal(Min(end_date, row.expiry_date))
              - toordinal(Max(start_date, row.effective_date)) + 1
        policy_total_days == toordinal(row.expiry_date) - toordinal(row.effective_date) + 1
    IN  <<row.amount * overlap_days, policy_total_days>>

RECURSIVE ScaledSum(_, _, _, _)
\* the shares of the contributions in ids, summed as an integer over the common
\* denominator scale
ScaledSum(ids, start_date, end_date, scale) ==
    IF ids = {} THEN 0
    ELSE LET k == CHOOSE x \in ids : TRUE
             share == Share(k, start_date, end_date)
         IN  (share[1] * scale) \div share[2]
               + ScaledSum(ids \ {k}, start_date, end_date, scale)

RECURSIVE DurationProduct(_)
\* a common denominator of all policies of the table
DurationProduct(ids) ==
    IF ids = {} THEN 1
    ELSE LET k == CHOOSE x \in ids : TRUE
         IN  Share(k, alloc.start_date, alloc.end_date)[2] * DurationProduct(ids \ {k})

\* a returned amount equals the scaled integer n / scale
IsAmount(result, n, scale) ==
    ~result.raised /\ result.value.num * scale = n * result.value.den

\* C13: the allocation is additive over adjacent windows: with every policy having
\* effective <= expiry, the allocation of [s, m] plus that of [m+1, e] (each over
\* the contributions the overlap filter selects for it) equals the allocation of
\* [s, e], and each allocation is the sum of amount * overlap_days /
\* policy_total_days with inclusive day counts, in exact arithmetic.
C13_AllocationIsAdditive ==
    (alloc.pc = "returned" /\ \A k \in DOMAIN alloc.premiums : ~Inverted(k)) =>
        LET scale == DurationProduct(DOMAIN alloc.premiums)
            s == alloc.start_date
            e == alloc.end_date
            m == alloc.split
        IN  /\ IsAmount(alloc.whole, ScaledSum(Selected(s, e), s, e, scale), scale)
            /\ m # None =>
                 /\ IsAmount(alloc.first, ScaledSum(Selected(s, m), s, m, scale), scale)
                 /\ IsAmount(alloc.second,
                             ScaledSum(Selected(NextDay(m), e), NextDay(m), e, scale),
                             scale)
                 /\ ~alloc.first.raised /\ ~alloc.second.raised
                 /\ FracAdd(alloc.first.value, alloc.second.value) = alloc.whole.value

\* a window cut inside a policy that reaches beyond both ends of the cut, next to a
\* second contribution
C13_Witness ==
    /\ alloc.pc = "returned"
    /\ alloc.split # None
    /\ Len(alloc.premiums) = 2
    /\ \A k \in DOMAIN alloc.premiums : ~Inverted(k)
    /\ \E k \in DOMAIN alloc.premiums :
         /\ alloc.premiums[k].effective_date <= alloc.split
         /\ alloc.premiums[k].expiry_date > alloc.split
         /\ alloc.premiums[k].effective_date > alloc.start_date
    /\ alloc.first.value.num > 0
    /\ alloc.second.value.num > 0
    /\ alloc.whole.value.den > 1

----------------------------------------------------------------------------
(* Plans that are not applicable *)

\* the payment plan the running caller p is at
PlanAt(p) ==
    LET products == get_product_queryset(req[p].end_date, req[p].location_id)
    IN  get_payment_plan_queryset(products[pos[p].i], req[p].end_date)[pos[p].j]

\* the periodicity of the plan does not fire at end_date
NotFiring(plan, end_date) ==
    StartDateTable(YearOf(end_date), MonthOf(end_date), PaymentPlan[plan].periodicity) = None

Unregistered(plan) == PaymentPlan[plan].calculation \notin RegisteredCalculations

\* the products and plans a run for (end_date, location_id) is about
ActiveProducts(end_date, location_id) ==
    {k \in DOMAIN Product :
        /\ Product[k].validity_to = None
        /\ Product[k].date_from <= end_date
        /\ (Product[k].date_to = None \/ Product[k].date_to >= end_date)
        /\ Product[k].location_id = location_id}

ValidPlans(product, end_date) ==
    {k \in DOMAIN PaymentPlan :
        /\ PaymentPlan[k].benefit_plan = product
        /\ ~PaymentPlan[k].is_deleted
        /\ PaymentPlan[k].date_valid_from <= end_date
        /\ PaymentPlan[k].date_valid_to >= end_date}

\* the step of p is over a plan that is not applicable: nothing is raised, no
\* calculation is invoked, no row is written, and a plan that does not fire gets
\* no window (no allocation is computed); p goes on with the next plan or is done
SkipIsNormal(p) ==
    (pc[p] = "running" /\ pos'[p] # pos[p] /\ ret'[p] = ret[p]
       /\ (NotFiring(PlanAt(p), req[p].end_date) \/ Unregistered(PlanAt(p))))
    => /\ pc'[p] \in {"running", "finished"}
       /\ pos'[p].exc = ""
       /\ calls'[p] = calls[p]
       /\ tx'[p] = tx[p]
       /\ NotFiring(PlanAt(p), req[p].end_date) => pos'[p].computed = pos[p].computed
       /\ UNCHANGED dbVars

\* the run of p has got through all its products and plans: exactly the plans that
\* fire and are registered had both calculations invoked
AllApplicableInvoked(p) ==
    pc[p] = "finished" =>
        {<<calls[p][a].product, calls[p][a].plan, calls[p][a].context>> :
            a \in DOMAIN calls[p]}
          = {<<prod, plan, context>> \in
               (DOMAIN Product) \X (DOMAIN PaymentPlan) \X {"BatchValuate", "BatchPayment"} :
                 /\ prod \in ActiveProducts(req[p].end_date, req[p].location_id)
                 /\ plan \in ValidPlans(prod, req[p].end_date)
                 /\ ~NotFiring(plan, req[p].end_date)
                 /\ ~Unregistered(plan)}

\* such a run returns no error and commits its BatchRun
CompletesWithRun(p) ==
    (pc[p] = "finished" /\ pc'[p] = "idle")
    => /\ ret'[p] = RetNone
       /\ \E r \in batchRuns' \ batchRuns :
            /\ r.id = pos[p].created_run
            /\ r.validity_to = None
            /\ r.run_year = req[p].year /\ r.run_month = req[p].period

\* C14: a plan that is not applicable is a normal skip: a plan whose periodicity
\* does not fire at end_date gets no window and no calculation, a plan whose
\* calculation is not registered gets no calculation; the skip raises nothing, the
\* remaining plans and products are still processed and the run completes with its
\* BatchRun and without an error.
C14_NotApplicableIsSkipped ==
    /\ [][\A p \in Callers : SkipIsNormal(p) /\ CompletesWithRun(p)]_vars
    /\ [](\A p \in Callers : AllApplicableInvoked(p))

\* a run got through a product with a plan that does not fire and on to a product
\* with an unregistered plan, and invoked the calculations of the plans after them
C14_Witness ==
    \E p \in Callers :
        /\ pc[p] = "finished"
        /\ \E a, b \in DOMAIN calls[p], skipped, unknown \in DOMAIN PaymentPlan :
             /\ skipped \in ValidPlans(calls[p][a].product, req[p].end_date)
             /\ NotFiring(skipped, req[p].end_date)
             /\ calls[p][a].plan > skipped
             /\ unknown \in ValidPlans(calls[p][b].product, req[p].end_date)
             /\ Unregistered(unknown)
             /\ ~NotFiring(unknown, req[p].end_date)
             /\ calls[p][b].product > calls[p][a].product

----------------------------------------------------------------------------
(* Interrupts *)

\* the last call of p ended with KeyboardInterrupt or SystemExit leaving process_batch
Interrupted(p) ==
    pc[p] = "idle" /\ ret[p].kind = "raised" /\ ret[p].errors[1] \in Reraised

\* C15: KeyboardInterrupt and SystemExit raised during a run are not turned into an
\* error result: they leave process_batch, and the transaction leaves nothing of
\* the run behind: the BatchRun created at its start and every claim mutation are
\* absent from the committed state.
C15_InterruptRollsBack ==
    /\ [][\A p \in Callers :
            (pc[p] \in {"checked", "running"} /\ pc'[p] = "idle"
               /\ ret'[p].kind # "list") =>
                /\ Interrupted(p)'
                /\ tx'[p] = EmptyTx
                /\ UNCHANGED <<batchRuns, claims, items, services>>]_vars
    /\ [](\A p \in Sequential : Interrupted(p) =>
            /\ OpenRuns(batchRuns, req[p].year, req[p].period, req[p].location_id) = {}
            /\ \A c \in DOMAIN claims :
                 claims[c].batch_run # None =>
                    \E r \in batchRuns : r.id = claims[c].batch_run)

\* a run was interrupted after a calculation had valuated a claim in its
\* transaction: the BatchRun id is used up, the claim is committed as PROCESSED
C15_Witness ==
    \E p \in Callers :
        /\ Interrupted(p)
        /\ calls[p] # <<>>
        /\ batchRuns = {}
        /\ nextRunId = 2
        /\ \A c \in DOMAIN claims : claims[c].status = "PROCESSED"
        /\ InMonth(claims[1].validity_from, req[p].end_date)

----------------------------------------------------------------------------
(* A run without products *)

\* the call of p is for a key without an active product
NoProduct(p) ==
    req[p].end_date # None /\ ActiveProducts(req[p].end_date, req[p].location_id) = {}

\* C16: when no active product of the run's location (no global product when the
\* location is absent) covers end_date, the run still succeeds: the BatchRun is
\* created and stays open, no window is assembled, no calculation is invoked, no
\* claim is modified and no error is returned.
C16_NoProductRunSucceeds ==
    /\ [](\A p \in Callers : (NoProduct(p) /\ pc[p] # "idle") =>
            /\ pc[p] \in {"checked", "finished"}
            /\ calls[p] = <<>>
            /\ pos[p].computed = <<>>
            /\ tx[p].claims = <<>> /\ tx[p].items = <<>> /\ tx[p].services = <<>>)
    /\ [][\A p \in Callers : NoProduct(p) =>
            /\ (pc[p] = "checked" /\ pc'[p] # "idle") =>
                 /\ pc'[p] = "finished"
                 /\ \E r \in tx'[p].runs : r.id = pos'[p].created_run
            /\ (pc[p] = "finished" /\ pc'[p] # "finished") =>
                 /\ pc'[p] = "idle"
                 /\ ret'[p] = RetNone
                 /\ calls'[p] = <<>>
                 /\ \E r \in batchRuns' :
                      /\ batchRuns' = batchRuns \cup {r}
                      /\ r \notin batchRuns
                      /\ r.validity_to = None
                      /\ r.location_id = req[p].location_id
                      /\ r.run_year = req[p].year /\ r.run_month = req[p].period
                 /\ UNCHANGED <<claims, items, services>>]_vars

\* a run for a location without products has returned None and left its BatchRun,
\* while a claim of another location's product is still PROCESSED
C16_Witness ==
    \E p \in Callers :
        /\ Succeeded(p)
        /\ NoProduct(p)
        /\ calls[p] = <<>>
        /\ OpenRuns(batchRuns, req[p].year, req[p].period, req[p].location_id) # {}
        /\ \E c \in DOMAIN claims : claims[c].status = "PROCESSED"

----------------------------------------------------------------------------
(* The sums of the report *)

RECURSIVE SetSum(_, _)
\* the sum of f over the finite set S
SetSum(S, f) ==
    IF S = {} THEN 0
    ELSE LET x == CHOOSE y \in S : TRUE IN f[x] + SetSum(S \ {x}, f)

\* the name of the third level of the grouping mode
CodeOf(group) == IF group = "H" THEN "HFCode" ELSE "ProductCode"
ThirdSum(group) == IF group = "H" THEN "SUMHF_RemuneratedAmount" ELSE "SUMP_RemuneratedAmount"

\* the input rows of a region, of a district in it, of a code in that
RowsOf(region, district, code) ==
    {i \in DOMAIN report.data :
        /\ report.data[i].RegionName = region
        /\ district # None => report.data[i].DistrictName = district
        /\ code # None => report.data[i][CodeOf(report.group)] = code}

Remunerated(rowIds) ==
    SetSum(rowIds, [i \in rowIds |-> report.data[i].RemuneratedAmount])

\* the sum an output row of the group (region, district, code) carries in field
Carried(field, region, district, code) ==
    LET out == report.result
        i == CHOOSE k \in DOMAIN out :
                /\ out[k].RegionName = region
                /\ district # None => out[k].DistrictName = district
                /\ code # None => out[k][CodeOf(report.group)] = code
    IN  out[i][field]

\* C17: the sums of the report are consistent over the levels: the region sum of
\* RemuneratedAmount on the rows of a region equals the sum of the district sums
\* of its districts (one per district), every district sum equals the sum of the
\* sums of its facilities (mode H) or products (mode P), and every output row
\* carries the sums of exactly its own region, district and facility or product.
C17_SumsAreHierarchical ==
    (report.pc = "returned" /\ report.data # <<>>) =>
        /\ ~report.raised
        /\ \A k \in DOMAIN report.result :
             LET row == report.result[k]
                 region == row.RegionName
                 district == row.DistrictName
                 code == row[CodeOf(report.group)]
                 districts == {report.result[j].DistrictName :
                                 j \in {x \in DOMAIN report.result :
                                          report.result[x].RegionName = region}}
                 codes == {report.result[j][CodeOf(report.group)] :
                             j \in {x \in DOMAIN report.result :
                                      /\ report.result[x].RegionName = region
                                      /\ report.result[x].DistrictName = district}}
             IN  /\ row.SUMR_RemuneratedAmount = Remunerated(RowsOf(region, None, None))
                 /\ row.SUMD_RemuneratedAmount = Remunerated(RowsOf(region, district, None))
                 /\ row[ThirdSum(report.group)] = Remunerated(RowsOf(region, district, code))
                 /\ row.SUMR_RemuneratedAmount =
                      SetSum(districts,
                             [d \in districts |->
                                Carried("SUMD_RemuneratedAmount", region, d, None)])
                 /\ row.SUMD_RemuneratedAmount =
                      SetSum(codes,
                             [c \in codes |->
                                Carried(ThirdSum(report.group), region, district, c)])

\* rows of two regions that have a district of the same name, one of them with two
\* facilities and two products
C17_Witness ==
    /\ report.pc = "returned"
    /\ Len(report.result) = MaxRows
    /\ \E i, j \in DOMAIN report.result :
         /\ report.result[i].RegionName # report.result[j].RegionName
         /\ report.result[i].DistrictName = report.result[j].DistrictName
         /\ report.result[i].SUMR_RemuneratedAmount
              # report.result[j].SUMR_RemuneratedAmount

\* the original fields of an output row
Original(row) == [f \in DOMAIN report.data[1] |-> row[f]]

\* the output rows are the input rows, each once
SameRows ==
    /\ Len(report.result) = Len(report.data)
    /\ \A i \in DOMAIN report.data :
         Cardinality({k \in DOMAIN report.data : report.data[k] = report.data[i]})
           = Cardinality({k \in DOMAIN report.result :
                            Original(report.result[k]) = report.data[i]})

\* ascending by (RegionName, DistrictName, HFCode or ProductCode)
Ascending ==
    \A i, j \in DOMAIN report.result :
        i < j => LET a == report.result[i]
                     b == report.result[j]
                     code == CodeOf(report.group)
                 IN  \/ a.RegionName < b.RegionName
                     \/ a.RegionName = b.RegionName /\ a.DistrictName < b.DistrictName
                     \/ /\ a.RegionName = b.RegionName
                        /\ a.DistrictName = b.DistrictName
                        /\ a[code] <= b[code]

\* C18: fetch raises the no-data error if and only if the report query returned no
\* row; for any other input, a single row included, it raises nothing and returns
\* one enriched row per input row, every original field unchanged, in ascending
\* order of (RegionName, DistrictName, HFCode or ProductCode).
C18_NoDataOnlyWhenEmpty ==
    report.pc = "returned" =>
        /\ report.raised <=> report.data = <<>>
        /\ report.data # <<>> =>
             /\ SameRows
             /\ Ascending
             /\ \A k \in DOMAIN report.result :
                  DOMAIN report.data[1] \subseteq DOMAIN report.result[k]
                    /\ DOMAIN report.result[k] # DOMAIN report.data[1]

\* rows that came in descending order were returned in ascending order
C18_Witness ==
    /\ report.pc = "returned"
    /\ ~report.raised
    /\ Len(report.data) = MaxRows
    /\ report.data[1].RegionName = report.data[2].RegionName
    /\ report.data[1].DistrictName = report.data[2].DistrictName
    /\ report.data[1][CodeOf(report.group)] > report.data[2][CodeOf(report.group)]
    /\ Original(report.result[1]) = report.data[2]

----------------------------------------------------------------------------
(* The allocated contributions of the work data *)

\* the allocation computed from the contributions of the product over the window
FreshAllocation(product, start_date, end_date) ==
    get_allocated_premium(
        get_contribution_queryset(Premium, product, start_date, end_date),
        start_date, end_date).value

\* C19: the cache of allocated contributions never serves a stale or foreign
\* value: the allocated_contributions of the work data of every dispatch equals
\* the allocation freshly computed from the contributions of that product over
\* [start_date, end_date]; a value stored under a start date for one product is
\* not used for another product or another run; within a product all plans and
\* both contexts with the same start date get the same value, computed once.
C19_CacheIsFresh ==
    \A p \in Callers :
        /\ \A a \in DOMAIN calls[p] :
             calls[p][a].allocated_contributions
               = FreshAllocation(calls[p][a].product, calls[p][a].start_date,
                                 req[p].end_date)
        /\ \A a, b \in DOMAIN calls[p] :
             (calls[p][a].product = calls[p][b].product
                /\ calls[p][a].start_date = calls[p][b].start_date)
             => calls[p][a].allocated_contributions = calls[p][b].allocated_contributions
        /\ \A a, b \in DOMAIN pos[p].computed :
             pos[p].computed[a] = pos[p].computed[b] => a = b
        /\ pc[p] = "running" =>
             \A start_date \in DOMAIN pos[p].allocated_contribution :
                pos[p].allocated_contribution[start_date]
                  = FreshAllocation(
                        get_product_queryset(req[p].end_date, req[p].location_id)[pos[p].i],
                        start_date, req[p].end_date)
        /\ pc[p] \in {"idle", "checked"} => pos[p].allocated_contribution = <<>>

\* a run dispatched two products with the same start date and different
\* allocations, and both contexts of a plan with the allocation computed once
C19_Witness ==
    \E p \in Callers :
        /\ pc[p] = "finished"
        /\ \E a, b, c \in DOMAIN calls[p] :
             /\ calls[p][a].product # calls[p][b].product
             /\ calls[p][a].start_date = calls[p][b].start_date
             /\ calls[p][a].allocated_contributions # calls[p][b].allocated_contributions
             /\ calls[p][a].allocated_contributions.num > 0
             /\ calls[p][b].allocated_contributions.num > 0
             /\ c # a
             /\ calls[p][c].product = calls[p][a].product
             /\ calls[p][c].plan = calls[p][a].plan
        /\ Len(pos[p].computed) < Len(calls[p])

====
